---------------------------- MODULE Spec2Model ----------------------------
(* Harbinger (harbinger.py): the Docker event monitor that relays container *)
(* lifecycle events to a Slack webhook.  The model follows one process from *)
(* main() through DockerSlackMonitor.__init__ into monitor_containers, with *)
(* every blocking call (event read, inspect, log fetch, POST, sleep) as a   *)
(* step of its own, so that failures and KeyboardInterrupt can fall between *)
(* them exactly where Python lets them fall.                                *)
EXTENDS Integers, Sequences, FiniteSets, TLC

VARIABLES
    pc,             \* where the single thread of control is
    exitStatus,     \* "running", or how the process ended
    env,            \* the environment variables the process was started with
    log_lines,      \* self.log_lines
    max_retries,    \* self.max_retries
    retry_interval, \* self.retry_interval
    subs,           \* number of self.client.events() subscriptions opened
    seq,            \* number of events pulled from subscriptions so far
    event,          \* the event being handled (for event in ...)
    container_name, \* send_slack_message argument
    status,         \* send_slack_message argument
    exit_code,      \* send_slack_message argument
    details,        \* result of _get_container_details
    logs,           \* result of get_container_logs
    logFetch,       \* how the log fetch of get_container_logs went
    message,        \* the payload built by _create_slack_payload (line 365)
    rawLogs,        \* get_container_logs: the decoded text of container.logs, by lines
    pending,        \* get_container_logs: the lines the for loop has yet to take
    formatted_logs, \* get_container_logs: formatted_logs
    attempt,        \* loop variable of send_slack_message
    sendResult,     \* send_slack_message for the current event: "none" (not called),
                    \* "running", "ok", or the exception that ended it
    inflight,       \* send_slack_message calls begun and not yet ended
    oplog,          \* side effects of the current loop iteration: <<kind, seq, arg>>
    backoffs,       \* number of backoff sleeps begun (line 442)
    lastError,      \* where the last SlackNotificationError was caught (line 433)
    caught,         \* the exception e held by the handler of line 439
    signalled,      \* a KeyboardInterrupt has been raised
    sigAt,          \* what the thread was doing when it was raised
    shutdownLogged  \* "Received shutdown signal..." was logged

vars == <<pc, exitStatus, env, log_lines, max_retries, retry_interval, subs, seq, event,
          container_name, status, exit_code, details, logs, logFetch, message,
          rawLogs, pending, formatted_logs, attempt, sendResult, inflight, oplog, backoffs, lastError, caught, signalled, sigAt,
          shutdownLogged>>

-----------------------------------------------------------------------------
(* Bounds of the model *)

\* events pulled over the whole run
MaxEvents == 2
\* subscriptions opened over the whole run
MaxSubs == 2
\* largest MAX_RETRIES value tried
MaxRetriesCfg == 2
\* most lines in a log text the runtime returns
MaxRawLines == 3
\* largest LOG_LINES value tried
MaxTail == 2

-----------------------------------------------------------------------------
(* Program constants *)

\* int(os.getenv('LOG_LINES', '5'))
DefaultLogLines == 5
\* int(os.getenv('RETRY_INTERVAL', '10'))
DefaultRetryInterval == 10
\* int(os.getenv('MAX_RETRIES', '3'))
DefaultMaxRetries == 3

None == "None"
NoEvent == [Action |-> "none", exitCode |-> "absent", Labels |-> "absent"]
\* {}: what _get_container_details returns when the inspect fails
NoDetails == [ok |-> FALSE, compose |-> FALSE, project |-> "None",
              service |-> "None", image |-> "None"]
\* no payload has been built
NoMessage == [color |-> "None", title |-> "None", text |-> <<>>, ts |-> 0]
NoError == [seq |-> 0, sub |-> 0, backoffs |-> 0]
NoSignal == [pc |-> "none", ops |-> 0, subs |-> 0]

-----------------------------------------------------------------------------
(* The environment: what os.getenv returns *)

Unset == [kind |-> "unset", val |-> 0]
Text == [kind |-> "text", val |-> 0]
IntVar(n) == [kind |-> "int", val |-> n]

MaxRetriesEnv == {Unset, Text} \cup {IntVar(n) : n \in 0..MaxRetriesCfg}
RetryIntervalEnv == {Unset, Text, IntVar(-1), IntVar(0)}

LogLinesEnv == {Unset, Text}

EnvSet == [SLACK_WEBHOOK_URL : BOOLEAN,
           LOG_LINES : LogLinesEnv,
           MAX_RETRIES : MaxRetriesEnv,
           RETRY_INTERVAL : RetryIntervalEnv,
           docker : {"ok", "DockerException"}]

\* int(os.getenv(name, default)): the parsed value; Text does not parse
ParsesAsInt(v) == v.kind # "text"
GetenvInt(v, default) == IF v.kind = "unset" THEN default ELSE v.val

-----------------------------------------------------------------------------
(* Events of the runtime, as client.events(decode=True) yields them *)

Actions == {"die", "kill", "stop", "start", "restart", "pause", "unpause",
            "destroy", "create"}
\* Actor.Attributes.exitCode, when the runtime sets it
ExitCodeAttrs == {"absent", "0", "1", "137"}
\* Actor.Attributes.Labels: absent, or carrying the compose project/service keys
LabelAttrs == {"absent", "compose"}

\* exitCode is read for die/kill/destroy only, Labels for mapped actions only
Events ==
    {e \in [Action : Actions, exitCode : ExitCodeAttrs, Labels : LabelAttrs] :
        /\ (e.exitCode # "absent" => e.Action \in {"die", "kill", "destroy"})
        /\ (e.Labels # "absent" => e.Action # "create")}

\* action_mapping with the categories of die and kill exchanged
action_mapping_Swapped ==
    [a \in {"die", "kill", "stop", "start", "restart", "pause", "unpause", "destroy"} |->
        CASE a = "die" -> "killed"
          [] a = "kill" -> "exited"
          [] a = "stop" -> "stopped"
          [] a = "start" -> "started"
          [] a = "restart" -> "restarted"
          [] a = "pause" -> "paused"
          [] a = "unpause" -> "unpaused"
          [] a = "destroy" -> "removed"]

\* action_mapping of monitor_containers
action_mapping ==
    [a \in {"die", "kill", "stop", "start", "restart", "pause", "unpause", "destroy"} |->
        CASE a = "die" -> "exited"
          [] a = "kill" -> "killed"
          [] a = "stop" -> "stopped"
          [] a = "start" -> "started"
          [] a = "restart" -> "restarted"
          [] a = "pause" -> "paused"
          [] a = "unpause" -> "unpaused"
          [] a = "destroy" -> "removed"]

\* if action in action_mapping
IsRelevant(a) == a \in DOMAIN action_mapping

\* if action in ['die', 'kill', 'destroy']
IsExitAction(a) == a \in {"die", "kill", "destroy"}

\* attributes.get('exitCode', 'Unknown')
GetExitCode(e) == IF e.exitCode = "absent" THEN "Unknown" ELSE e.exitCode

\* _get_compose_info on a Labels value: <<project, service>>
_get_compose_info(labels) ==
    CASE labels = "compose" -> <<"shop", "api">>
      [] labels = "project_only" -> <<"shop", None>>
      [] labels = "service_only" -> <<None, "api">>
      [] OTHER -> <<None, None>>

\* _format_container_name(attributes); the event's name attribute is "web1"
_format_container_name(e) ==
    LET ps == _get_compose_info(e.Labels)
    IN  IF ps[1] # None /\ ps[2] # None
        THEN "shop/api"
        ELSE "web1"

\* What line 426 does once action == 'destroy' and exit_code == '0' hold: the
\* class has no attribute _is_compose_operation (the def at line 444 is a
\* local function of monitor_containers, bound only after the loop), so
\* evaluating self._is_compose_operation raises AttributeError.
SuppressionCheck(e) == "AttributeError"

\* lines 423-431: what the dispatch of a relevant event does first:
\* "send" (call send_slack_message) or the exception raised before it
DispatchOf(e) ==
    IF IsExitAction(e.Action)
    THEN IF e.Action = "destroy" /\ GetExitCode(e) = "0"
         THEN SuppressionCheck(e)
         ELSE "send"
    ELSE "send"

\* the exit_code argument of send_slack_message (None: not passed)
ExitCodeArg(e) == IF IsExitAction(e.Action) THEN GetExitCode(e) ELSE None

-----------------------------------------------------------------------------
(* The notification payload (_create_slack_payload, the class-level one) *)

\* str.upper() on the status words that can reach it
Upper(s) ==
    CASE s = "started" -> "STARTED"
      [] s = "exited" -> "EXITED"
      [] s = "killed" -> "KILLED"
      [] s = "stopped" -> "STOPPED"
      [] s = "restarted" -> "RESTARTED"
      [] s = "paused" -> "PAUSED"
      [] s = "unpaused" -> "UNPAUSED"
      [] s = "removed" -> "REMOVED"
      [] OTHER -> s

\* status_mapping.get(status, (status.upper(), "•"))[0]
StatusText(s) ==
    CASE s = "started" -> "START"
      [] s = "exited" -> "EXITED"
      [] s = "killed" -> "KILLED"
      [] s = "restart" -> "RESTART"
      [] s = "start" -> "START"
      [] s = "stopped" -> "STOPPED"
      [] OTHER -> Upper(s)

\* "EXIT" in status_text, over the texts StatusText can give
ContainsEXIT(t) == t \in {"EXITED"}

\* NeedsLogs had the log section been added for STOPPED as well
NeedsLogs_Stopped(t) == ContainsEXIT(t) \/ t \in {"KILLED", "STOPPED"}

\* if "EXIT" in status_text or status_text == "KILLED"
NeedsLogs(t) == ContainsEXIT(t) \/ t = "KILLED"

\* outcomes of self.client.containers.get(id) in _get_container_details:
\* NotFound, or the Config.Labels of the container that was found
InspectOutcomes == {"NotFound", "plain", "compose", "project_only", "service_only"}

\* _get_container_details with 'compose' set as soon as a project is derived
_get_container_details_ProjectOnly(outcome) ==
    IF outcome = "NotFound"
    THEN NoDetails
    ELSE LET ps == _get_compose_info(outcome)
         IN  [ok |-> TRUE,
              compose |-> (ps[1] # None),
              project |-> ps[1],
              service |-> ps[2],
              image |-> "nginx:latest"]

\* _get_container_details: {} on any exception, else the details record
\* ('compose': bool(project and service)); the image is "nginx:latest"
_get_container_details(outcome) ==
    IF outcome = "NotFound"
    THEN NoDetails
    ELSE LET ps == _get_compose_info(outcome)
         IN  [ok |-> TRUE,
              compose |-> (ps[1] # None /\ ps[2] # None),
              project |-> ps[1],
              service |-> ps[2],
              image |-> "nginx:latest"]

\* details.get(key, default)
Get(d, key, default) == IF d.ok THEN d[key] ELSE default

\* outcomes of the log fetch in get_container_logs
LogOutcomes == {"empty", "lines", "NotFound", "error"}

\* get_container_logs had both except clauses returned the placeholder
get_container_logs_Placeholder(outcome) ==
    CASE outcome = "lines" -> "formatted log lines"
      [] OTHER -> "No logs available"

\* get_container_logs: the returned text
get_container_logs(outcome) ==
    CASE outcome = "empty" -> "No logs available"
      [] outcome = "lines" -> "formatted log lines"
      [] outcome = "NotFound" -> "Container not found - may have been removed"
      [] outcome = "error" -> "Error retrieving logs"

-----------------------------------------------------------------------------
(* get_container_logs, line by line (lines 189-223).  A line of the decoded *)
(* text is held as its words: the line is the words joined by one space.    *)

\* the timestamp the runtime puts before a line: date and time, then nine
\* fraction digits and Z
Stamp == "2024-05-01T12:00:00"
DockerStamp == Stamp \o ".123456789Z"

\* the lines a log text is made of
RawLines ==
    {<<DockerStamp, "listening">>,
     <<DockerStamp, "exit", "1">>,
     <<DockerStamp, "">>,
     <<Stamp \o "Z", "ready">>,
     <<"12:00:00", "failed">>,
     <<"Traceback">>}

\* the texts container.logs(...).decode('utf-8') can be
RawTexts == UNION {[1..n -> RawLines] : n \in 0..MaxRawLines}

\* sep.join(ws)
RECURSIVE JoinWith(_, _)
JoinWith(ws, sep) ==
    IF ws = <<>> THEN ""
    ELSE IF Len(ws) = 1 THEN ws[1]
    ELSE ws[1] \o sep \o JoinWith(Tail(ws), sep)

\* str.rstrip() on a line: words emptied by trailing spaces go
RECURSIVE RStripWords(_)
RStripWords(ws) ==
    IF ws # <<>> /\ ws[Len(ws)] = ""
    THEN RStripWords(SubSeq(ws, 1, Len(ws) - 1))
    ELSE ws

\* line 189: .strip() on the whole text; no line of RawLines begins with
\* white space, so only the end of the last line can change
Strip(lines) ==
    IF lines = <<>>
    THEN <<>>
    ELSE [lines EXCEPT ![Len(lines)] = RStripWords(lines[Len(lines)])]

\* LastLines without the cut
LastLines_NoCut(lines, tail) == lines

\* line 196: logs.split('\n')[-tail:], for tail >= 1
LastLines(lines, tail) ==
    IF Len(lines) <= tail
    THEN lines
    ELSE SubSeq(lines, Len(lines) - tail + 1, Len(lines))

\* line 204: timestamp_str.split('.')[0], on the first words of RawLines
BeforeDot(w) == IF w = DockerStamp THEN Stamp ELSE w

\* lines 207-210: strptime with '%Y-%m-%dT%H:%M:%SZ', then strftime with
\* '%Y-%m-%d %H:%M:%S'; "ValueError" when the text does not match
Strptime(t) == IF t = Stamp \o "Z" THEN "2024-05-01 12:00:00" ELSE "ValueError"

\* lines 197-221: what the loop body appends for one line
FormatLine(ws) ==
    IF Len(ws) >= 2
    THEN LET timestamp == Strptime(BeforeDot(ws[1]) \o "Z")
         IN  IF timestamp # "ValueError"
             THEN timestamp \o " | " \o JoinWith(Tail(ws), " ")
             ELSE JoinWith(ws, " ")
    ELSE JoinWith(ws, " ")

-----------------------------------------------------------------------------

\* status_mapping.get(status, (status.upper(), "•"))[1], the emoji by name
Icon(s) ==
    CASE s = "started" -> "white_check_mark"
      [] s = "exited" -> "x"
      [] s = "killed" -> "skull"
      [] s = "restart" -> "arrows_counterclockwise"
      [] s = "start" -> "white_check_mark"
      [] s = "stopped" -> "stop_button"
      [] OTHER -> "bullet"

\* colors.get(status_text, "#cccccc")
Color(t) ==
    CASE t = "START" -> "#36a64f"
      [] t = "EXITED" -> "#dc3545"
      [] t = "KILLED" -> "#ff6b6b"
      [] t = "RESTART" -> "#4dabf7"
      [] t = "STOPPED" -> "#ffd93d"
      [] OTHER -> "#cccccc"

\* format_status_message (lines 261-276); no line of the program calls it
format_status_message(status_text, code) ==
    IF code # None /\ ContainsEXIT(status_text)
    THEN IF code = "0"
         THEN status_text \o " (Clean exit)"
         ELSE status_text \o " (Error exit code: " \o code \o ")"
    ELSE status_text

\* lines 301-303: status_display
StatusDisplay(status_text, code) ==
    IF code # None /\ ContainsEXIT(status_text)
    THEN status_text \o " (Exit Code: " \o code \o ")"
    ELSE status_text

\* line 306: title
Title(is_compose, icon) ==
    IF is_compose
    THEN "Docker Compose Service Event " \o icon
    ELSE "Docker Container Event " \o icon

\* line 310: the first of message_parts (the backquotes of the Slack
\* markup are written as apostrophes here and below)
ServiceLine(d, name) ==
    IF Get(d, "compose", FALSE)
    THEN "*Service:* '" \o Get(d, "project", "Unknown") \o "/"
             \o Get(d, "service", "Unknown") \o "'"
    ELSE "*Service:* '" \o name \o "'"

\* line 311
StatusLine(display) == "*Status:* '" \o display \o "'"

\* lines 316-317: the image line, if details has an image
ImageLines(d) ==
    IF Get(d, "image", None) # None
    THEN <<"*Image:* " \o Get(d, "image", None)>>
    ELSE <<>>

\* lines 323-325: the log section, if logs is a text other than the placeholder
LogBlock(l) ==
    IF l # None /\ l # "" /\ l # "No logs available"
    THEN <<"\n*Recent Logs:*", "'''" \o l \o "'''">>
    ELSE <<>>

\* _create_slack_payload (lines 278-347) from its arguments, the details d
\* and log text l it fetched (l is None when no fetch was made), at time now;
\* text holds message_parts, host and environment being "host1" and "production"
_create_slack_payload(name, s, code, d, l, now) ==
    [color |-> Color(StatusText(s)),
     title |-> Title(Get(d, "compose", FALSE), Icon(s)),
     text |-> <<ServiceLine(d, name),
                StatusLine(StatusDisplay(StatusText(s), code)),
                "*Host:* 'host1'",
                "*Environment:* 'production'">>
              \o ImageLines(d) \o LogBlock(l),
     ts |-> now]

-----------------------------------------------------------------------------
(* Exception handling of monitor_containers and main *)

\* InTry had the retry sleep been left outside the try block
InTry_SleepOutside(p) == p \in {"subscribe", "stream", "inspect", "logs", "post"}

\* the try block of monitor_containers (lines 410-434) encloses these steps
InTry(p) == p \in {"subscribe", "stream", "inspect", "logs", "post", "retry_sleep"}

\* HandlerFor without the inner except SlackNotificationError clause
HandlerFor_NoInnerExcept(exc) ==
    CASE exc = "KeyboardInterrupt" -> "returned"
      [] OTHER -> "backoff"

\* where an exception raised inside the try block lands:
\* except SlackNotificationError (433) continues the for loop,
\* except KeyboardInterrupt (436) breaks, except Exception (439) backs off
HandlerFor(exc) ==
    CASE exc = "SlackNotificationError" -> "stream"
      [] exc = "KeyboardInterrupt" -> "returned"
      [] OTHER -> "backoff"

\* main(): the exit status for an exception that leaves monitor_containers
\* or __init__; KeyboardInterrupt is no Exception and is not caught
MainExit(exc) ==
    CASE exc = "ConfigurationError" -> "1"
      [] exc = "DockerMonitorError" -> "2"
      [] exc = "KeyboardInterrupt" -> "KeyboardInterrupt"
      [] OTHER -> "3"

\* time.sleep(secs) raises ValueError for a negative argument
SleepRaises(secs) == secs < 0

-----------------------------------------------------------------------------
(* Initial state: main() is about to construct DockerSlackMonitor *)

Init ==
    /\ pc = "load_config"
    /\ exitStatus = "running"
    /\ env \in EnvSet
    /\ log_lines = 0
    /\ max_retries = 0
    /\ retry_interval = 0
    /\ subs = 0
    /\ seq = 0
    /\ event = NoEvent
    /\ container_name = None
    /\ status = None
    /\ exit_code = None
    /\ details = NoDetails
    /\ logs = None
    /\ logFetch = "none"
    /\ message = NoMessage
    /\ rawLogs = <<>>
    /\ pending = <<>>
    /\ formatted_logs = <<>>
    /\ attempt = 0
    /\ sendResult = "none"
    /\ inflight = 0
    /\ oplog = <<>>
    /\ backoffs = 0
    /\ lastError = NoError
    /\ caught = "none"
    /\ signalled = FALSE
    /\ sigAt = NoSignal
    /\ shutdownLogged = FALSE

cfgVars == <<env, log_lines, max_retries, retry_interval>>
loopVars == <<subs, backoffs, seq>>
argVars == <<event, container_name, status, exit_code>>
sendVars == <<details, logs, logFetch, message, attempt, sendResult, inflight, lastError>>
sigVars == <<signalled, sigAt, shutdownLogged>>
fmtVars == <<rawLogs, pending, formatted_logs>>

\* the process ends with an exception main() turns into an exit status
Exit(exc) ==
    /\ pc' = "exited"
    /\ exitStatus' = MainExit(exc)

\* exception exc is raised inside the try block of monitor_containers
Raise(exc) ==
    /\ pc' = HandlerFor(exc)
    /\ caught' = IF HandlerFor(exc) = "backoff" THEN exc ELSE caught

\* send_slack_message returns ("ok") or raises r; its locals are gone and
\* control is with monitor_containers again
EndSend(r) ==
    /\ sendResult' = r
    /\ inflight' = inflight - 1
    /\ details' = NoDetails
    /\ logs' = None
    /\ logFetch' = "none"
    /\ message' = NoMessage
    /\ attempt' = 0
    /\ IF r = "ok"
       THEN pc' = "stream" /\ caught' = caught
       ELSE Raise(r)
    /\ lastError' = IF r = "SlackNotificationError"
                    THEN [seq |-> seq, sub |-> subs, backoffs |-> backoffs]
                    ELSE lastError

\* the wall clock, in blocking calls made since the event was pulled
Clock == Len(oplog)

\* lines 365-367: the payload is built from details d and logs l (fetched
\* with outcome f), then for attempt in range(self.max_retries) begins;
\* an empty range falls through to line 388
StartDelivery(d, l, f) ==
    IF max_retries > 0
    THEN /\ details' = d
         /\ logs' = l
         /\ logFetch' = f
         /\ message' = _create_slack_payload(container_name, status, exit_code, d, l, Clock)
         /\ pc' = "post"
         /\ attempt' = 0
         /\ UNCHANGED <<sendResult, inflight, lastError, caught>>
    ELSE EndSend("SlackNotificationError")

-----------------------------------------------------------------------------
(* Startup *)

\* _load_configuration (lines 81-120)
LoadConfiguration ==
    /\ pc = "load_config"
    /\ IF /\ env.SLACK_WEBHOOK_URL
          /\ ParsesAsInt(env.LOG_LINES)
          /\ ParsesAsInt(env.RETRY_INTERVAL)
          /\ ParsesAsInt(env.MAX_RETRIES)
       THEN /\ log_lines' = GetenvInt(env.LOG_LINES, DefaultLogLines)
            /\ retry_interval' = GetenvInt(env.RETRY_INTERVAL, DefaultRetryInterval)
            /\ max_retries' = GetenvInt(env.MAX_RETRIES, DefaultMaxRetries)
            /\ pc' = "init_docker"
            /\ exitStatus' = exitStatus
       ELSE /\ Exit("ConfigurationError")
            /\ UNCHANGED <<log_lines, retry_interval, max_retries>>
    /\ UNCHANGED <<env, loopVars, argVars, sendVars, oplog, caught, sigVars, fmtVars>>

\* _initialize_docker_client (lines 121-131), then monitor_containers begins
InitializeDockerClient ==
    /\ pc = "init_docker"
    /\ IF env.docker = "ok"
       THEN /\ pc' = "subscribe"
            /\ exitStatus' = exitStatus
       ELSE Exit("DockerMonitorError")
    /\ UNCHANGED <<cfgVars, loopVars, argVars, sendVars, oplog, caught, sigVars, fmtVars>>

-----------------------------------------------------------------------------
(* monitor_containers: the event loop *)

\* line 411: self.client.events(decode=True, filters=...) opens a subscription
Subscribe ==
    /\ pc = "subscribe"
    /\ subs < MaxSubs
    /\ subs' = subs + 1
    /\ pc' = "stream"
    /\ UNCHANGED <<exitStatus, cfgVars, backoffs, seq, argVars, sendVars, oplog, caught, sigVars, fmtVars>>

\* AwaitingEvent had the next event been pulled during a retry sleep
AwaitingEvent_Overlap == pc \in {"stream", "retry_sleep"}

\* line 411: the for statement asks the subscription for its next event
\* only when the body of the previous iteration is over
AwaitingEvent == pc = "stream"

\* lines 411-431: the subscription yields event e; the loop body runs up to
\* its first blocking call
NextEvent(e) ==
    /\ AwaitingEvent
    /\ seq < MaxEvents
    /\ seq' = seq + 1
    /\ event' = e
    /\ oplog' = <<>>
    /\ IF ~IsRelevant(e.Action)
       THEN /\ pc' = "stream"
            /\ sendResult' = "none"
            /\ UNCHANGED <<container_name, status, exit_code, inflight, caught>>
       ELSE /\ container_name' = _format_container_name(e)
            /\ status' = action_mapping[e.Action]
            /\ IF DispatchOf(e) = "send"
               THEN /\ exit_code' = ExitCodeArg(e)
                    /\ sendResult' = "running"
                    /\ inflight' = inflight + 1
                    /\ pc' = "inspect"
                    /\ caught' = caught
               ELSE /\ exit_code' = GetExitCode(e)
                    /\ sendResult' = "none"
                    /\ inflight' = inflight
                    /\ Raise(DispatchOf(e))
    /\ UNCHANGED <<exitStatus, cfgVars, subs, backoffs, details, logs, logFetch,
                   message, attempt, lastError, sigVars, fmtVars>>

\* reading the subscription raises (connection lost, decode error, ...):
\* an EventStreamError, in the spec's words
StreamError ==
    /\ pc = "stream"
    /\ Raise("EventStreamError")
    /\ UNCHANGED <<exitStatus, cfgVars, loopVars, argVars, sendVars, oplog, sigVars, fmtVars>>

\* the event generator ends without raising: the for loop finishes and
\* while True starts the next iteration
StreamEnd ==
    /\ pc = "stream"
    /\ pc' = "subscribe"
    /\ UNCHANGED <<exitStatus, cfgVars, loopVars, argVars, sendVars, oplog, caught, sigVars, fmtVars>>

\* lines 439-442: the handler logs and calls time.sleep(self.retry_interval);
\* a ValueError raised there leaves monitor_containers
BackoffSleep ==
    /\ pc = "backoff"
    /\ IF SleepRaises(retry_interval)
       THEN /\ Exit("ValueError")
            /\ backoffs' = backoffs
       ELSE /\ pc' = "backoff_sleep"
            /\ backoffs' = backoffs + 1
            /\ exitStatus' = exitStatus
    /\ UNCHANGED <<cfgVars, subs, seq, argVars, sendVars, oplog, caught, sigVars, fmtVars>>

\* the backoff sleep is over: back to while True
BackoffDone ==
    /\ pc = "backoff_sleep"
    /\ pc' = "subscribe"
    /\ caught' = "none"
    /\ UNCHANGED <<exitStatus, cfgVars, loopVars, argVars, sendVars, oplog, sigVars, fmtVars>>

-----------------------------------------------------------------------------
(* send_slack_message *)

\* lines 294-298: _create_slack_payload inspects the container
GetContainerDetails(outcome) ==
    /\ pc = "inspect"
    /\ oplog' = Append(oplog, <<"inspect", seq, 0>>)
    /\ IF NeedsLogs(StatusText(status))
       THEN /\ details' = _get_container_details(outcome)
            /\ pc' = "logs"
            /\ UNCHANGED <<logs, logFetch, message, attempt, sendResult, inflight,
                           lastError, caught>>
       ELSE StartDelivery(_get_container_details(outcome), None, "none")
    /\ UNCHANGED <<exitStatus, cfgVars, loopVars, argVars, sigVars, fmtVars>>

\* lines 321-325: the log tail is fetched; the payload is complete
GetContainerLogs(outcome) ==
    /\ pc = "logs"
    /\ oplog' = Append(oplog, <<"logs", seq, 0>>)
    /\ StartDelivery(details, get_container_logs(outcome), outcome)
    /\ UNCHANGED <<exitStatus, cfgVars, loopVars, argVars, sigVars, fmtVars>>

\* PostedBody had the payload been built anew for every attempt
PostedBody_Rebuilt == [message EXCEPT !.ts = Clock]

\* line 371: data=json.dumps(message), the payload built at line 365
PostedBody == message

\* what requests.post can do
PostOutcomes == {"200", "500", "RequestException"}

\* lines 368-388: one POST attempt and what follows it; oplog keeps the ts
\* field of the body that was posted
PostAttempt(outcome) ==
    /\ pc = "post"
    /\ IF outcome = "200"
       THEN /\ oplog' = Append(oplog, <<"post", seq, PostedBody.ts>>)
            /\ EndSend("ok")
       ELSE IF attempt < max_retries - 1
            THEN IF SleepRaises(retry_interval)
                 THEN /\ oplog' = Append(oplog, <<"post", seq, PostedBody.ts>>)
                      /\ EndSend("ValueError")
                 ELSE /\ oplog' = oplog \o <<<<"post", seq, PostedBody.ts>>,
                                            <<"sleep", seq, retry_interval>>>>
                      /\ pc' = "retry_sleep"
                      /\ UNCHANGED <<sendVars, caught>>
            ELSE /\ oplog' = Append(oplog, <<"post", seq, PostedBody.ts>>)
                 /\ EndSend("SlackNotificationError")
    /\ UNCHANGED <<exitStatus, cfgVars, loopVars, argVars, sigVars, fmtVars>>

\* the retry sleep is over: next iteration of the for loop
RetrySleepDone ==
    /\ pc = "retry_sleep"
    /\ pc' = "post"
    /\ attempt' = attempt + 1
    /\ UNCHANGED <<exitStatus, cfgVars, loopVars, argVars, details, logs, logFetch,
                   message, sendResult, inflight, lastError, oplog, caught, sigVars, fmtVars>>

-----------------------------------------------------------------------------
(* The shutdown signal: KeyboardInterrupt raised in the main thread, at    *)
(* whatever the thread is doing                                            *)

Signal ==
    /\ ~signalled
    /\ pc \notin {"returned", "exited"}
    /\ signalled' = TRUE
    /\ sigAt' = [pc |-> pc, ops |-> Len(oplog), subs |-> subs]
    /\ IF InTry(pc)
       THEN /\ pc' = HandlerFor("KeyboardInterrupt")
            /\ shutdownLogged' = TRUE
            /\ exitStatus' = "0"
       ELSE /\ Exit("KeyboardInterrupt")
            /\ shutdownLogged' = shutdownLogged
    /\ IF sendResult = "running"
       THEN /\ sendResult' = "KeyboardInterrupt"
            /\ inflight' = inflight - 1
            /\ details' = NoDetails
            /\ logs' = None
            /\ logFetch' = "none"
            /\ message' = NoMessage
            /\ attempt' = 0
            /\ lastError' = lastError
       ELSE UNCHANGED sendVars
    /\ UNCHANGED <<cfgVars, loopVars, argVars, oplog, caught, fmtVars>>

-----------------------------------------------------------------------------

Next ==
    \/ LoadConfiguration
    \/ InitializeDockerClient
    \/ Subscribe
    \/ \E e \in Events : NextEvent(e)
    \/ StreamError
    \/ StreamEnd
    \/ BackoffSleep
    \/ BackoffDone
    \/ \E o \in InspectOutcomes : GetContainerDetails(o)
    \/ \E o \in LogOutcomes : GetContainerLogs(o)
    \/ \E o \in PostOutcomes : PostAttempt(o)
    \/ RetrySleepDone
    \/ Signal

Spec == Init /\ [][Next]_vars

-----------------------------------------------------------------------------
(* get_container_logs on its own: one call, for every log text and tail *)

\* LOG_LINES values of these runs
TailEnv == {Unset} \cup {IntVar(n) : n \in 1..MaxTail}

\* a configured monitor is about to call get_container_logs(id, log_lines)
\* for a container whose log text is rawLogs
InitLogs ==
    /\ pc = "logs_fetch"
    /\ exitStatus = "running"
    /\ \E l \in TailEnv :
          /\ env = [SLACK_WEBHOOK_URL |-> TRUE, LOG_LINES |-> l, MAX_RETRIES |-> Unset,
                    RETRY_INTERVAL |-> Unset, docker |-> "ok"]
          /\ log_lines = GetenvInt(l, DefaultLogLines)
    /\ max_retries = DefaultMaxRetries
    /\ retry_interval = DefaultRetryInterval
    /\ subs = 0
    /\ seq = 0
    /\ event = NoEvent
    /\ container_name = None
    /\ status = None
    /\ exit_code = None
    /\ details = NoDetails
    /\ logs = None
    /\ logFetch = "none"
    /\ message = NoMessage
    /\ rawLogs \in RawTexts
    /\ pending = <<>>
    /\ formatted_logs = <<>>
    /\ attempt = 0
    /\ sendResult = "none"
    /\ inflight = 0
    /\ oplog = <<>>
    /\ backoffs = 0
    /\ lastError = NoError
    /\ caught = "none"
    /\ signalled = FALSE
    /\ sigAt = NoSignal
    /\ shutdownLogged = FALSE

\* what get_container_logs leaves alone
logsFrame == <<exitStatus, cfgVars, loopVars, argVars, details, message, attempt,
               sendResult, inflight, oplog, lastError, caught, sigVars, rawLogs>>

\* lines 188-196: the container is looked up and its log text fetched,
\* decoded, stripped, split and cut; a failure, or an empty text, returns
FetchLogs(outcome) ==
    /\ pc = "logs_fetch"
    /\ outcome = "empty" => Strip(rawLogs) = <<>>
    /\ outcome = "lines" => Strip(rawLogs) # <<>>
    /\ logFetch' = outcome
    /\ IF outcome = "lines"
       THEN /\ pending' = LastLines(Strip(rawLogs), log_lines)
            /\ pc' = "logs_format"
            /\ logs' = logs
       ELSE /\ logs' = get_container_logs(outcome)
            /\ pc' = "logs_done"
            /\ pending' = pending
    /\ UNCHANGED <<logsFrame, formatted_logs>>

\* lines 196-221: one turn of the for loop
FormatNextLine ==
    /\ pc = "logs_format"
    /\ pending # <<>>
    /\ formatted_logs' = Append(formatted_logs, FormatLine(Head(pending)))
    /\ pending' = Tail(pending)
    /\ UNCHANGED <<logsFrame, pc, logs, logFetch>>

\* line 223: return "\n".join(formatted_logs)
ReturnLogs ==
    /\ pc = "logs_format"
    /\ pending = <<>>
    /\ logs' = JoinWith(formatted_logs, "\n")
    /\ pc' = "logs_done"
    /\ UNCHANGED <<logsFrame, pending, formatted_logs, logFetch>>

NextLogs ==
    \/ \E o \in LogOutcomes : FetchLogs(o)
    \/ FormatNextLine
    \/ ReturnLogs

SpecLogs == InitLogs /\ [][NextLogs]_vars

-----------------------------------------------------------------------------
(* Notions the claims use *)

\* number of entries of kind k in oplog
Count(k) == Cardinality({i \in DOMAIN oplog : oplog[i][1] = k})
Posts == Count("post")
Sleeps == Count("sleep")

\* the Supervisor's states, in the spec's words
Streaming == pc \in {"subscribe", "stream", "inspect", "logs", "post", "retry_sleep"}
Backoff == pc \in {"backoff", "backoff_sleep"}
\* an event is being dispatched
Dispatching(p) == p \in {"inspect", "logs", "post", "retry_sleep"}
\* the Supervisor loop has begun: a subscription has been opened
LoopStarted == subs >= 1

\* the eight recognized actions and their categories, as the spec lists them
RecognizedActions == {"die", "kill", "stop", "start", "restart", "pause",
                      "unpause", "destroy"}
CategoryOf(a) ==
    CASE a = "start" -> "started"
      [] a = "die" -> "exited"
      [] a = "kill" -> "killed"
      [] a = "stop" -> "stopped"
      [] a = "restart" -> "restarted"
      [] a = "pause" -> "paused"
      [] a = "unpause" -> "unpaused"
      [] a = "destroy" -> "removed"
      [] OTHER -> "unrecognized"

\* the event carries at least one label key with the com.docker.compose prefix
HasGroupLabel(e) == e.Labels = "compose"

\* oplog, from its first POST on, is POST, sleep, POST, ..., POST, every
\* sleep lasting retry_interval
Alternates ==
    \A i \in DOMAIN oplog :
        /\ (oplog[i][1] = "sleep" =>
               /\ oplog[i][3] = retry_interval
               /\ i > 1 /\ oplog[i-1][1] = "post"
               /\ i < Len(oplog) /\ oplog[i+1][1] = "post")
        /\ (oplog[i][1] = "post" /\ i < Len(oplog) => oplog[i+1][1] = "sleep")

-----------------------------------------------------------------------------
(* C1 *)

\* C1: for max_retries >= 1, a send_slack_message call that was not
\* interrupted ends either with success after k <= max_retries POST attempts
\* or with the delivery error after exactly max_retries attempts, with one
\* sleep of retry_interval between consecutive attempts and none after the
\* last.  Fails: with RETRY_INTERVAL < 0 the first sleep raises ValueError.
C1_ExactRetries ==
    (max_retries >= 1 /\ sendResult \notin {"none", "running", "KeyboardInterrupt"}) =>
        /\ sendResult \in {"ok", "SlackNotificationError"}
        /\ Alternates
        /\ Sleeps = Posts - 1
        /\ (sendResult = "SlackNotificationError" => Posts = max_retries)
        /\ (sendResult = "ok" => Posts \in 1..max_retries)

\* C1 where time.sleep accepts the interval: the statement holds
C1_ExactRetries_IntervalAccepted ==
    (retry_interval >= 0) => C1_ExactRetries

-----------------------------------------------------------------------------
(* C2 *)

\* C2: the step in which send_slack_message ends with the delivery error
\* leaves the Supervisor waiting for the next event of the same subscription:
\* no backoff, no resubscription, the process goes on.
C2_DeliveryErrorIsolated ==
    [][(sendResult = "running" /\ sendResult' = "SlackNotificationError") =>
          /\ pc' = "stream"
          /\ subs' = subs
          /\ backoffs' = backoffs
          /\ caught' = caught
          /\ exitStatus' = "running"]_vars

\* the event after a failed delivery was delivered on the same subscription,
\* with no backoff in between
C2_Witness ==
    /\ lastError.seq >= 1
    /\ seq = lastError.seq + 1
    /\ sendResult = "ok"
    /\ subs = lastError.sub
    /\ backoffs = lastError.backoffs

-----------------------------------------------------------------------------
(* C3 *)

\* C3: an error raised by the subscription read leads to one backoff sleep
\* and a new subscription, and never makes the Supervisor stop: without a
\* shutdown signal the process is not ended by a stream failure.
\* Fails: with RETRY_INTERVAL < 0 the sleep of line 442 raises ValueError.
C3_StreamErrorNeverStops ==
    (caught = "EventStreamError" /\ ~signalled) =>
        /\ Backoff
        /\ exitStatus = "running"
        /\ (pc = "backoff_sleep" => backoffs >= 1)

\* C3 where time.sleep accepts the interval: the statement holds
C3_StreamErrorNeverStops_IntervalAccepted ==
    (retry_interval >= 0) => C3_StreamErrorNeverStops

-----------------------------------------------------------------------------
(* C4 *)

\* C4 as claimed: a signal that arrives during a dispatch lets the dispatch
\* run to completion (success or delivery error) before the loop is left.
C4_DispatchCompletes ==
    (signalled /\ Dispatching(sigAt.pc)) =>
        sendResult \in {"ok", "SlackNotificationError"}

\* C4 amended: a signal that arrives during a dispatch (inspect, log fetch,
\* POST attempt, retry sleep) ends it there: send_slack_message is left by
\* KeyboardInterrupt, nothing more is done for the event, the Supervisor
\* logs the shutdown and returns, and no subscription is opened after it.
C4_DispatchAbandoned ==
    (signalled /\ Dispatching(sigAt.pc)) =>
        /\ sendResult = "KeyboardInterrupt"
        /\ inflight = 0
        /\ Len(oplog) = sigAt.ops
        /\ subs = sigAt.subs
        /\ pc = "returned"
        /\ shutdownLogged
        /\ exitStatus = "0"

\* the signal arrived during a retry sleep, attempts still remaining
C4_Witness ==
    /\ signalled
    /\ sigAt.pc = "retry_sleep"
    /\ Posts < max_retries
    /\ pc = "returned"

-----------------------------------------------------------------------------
(* C5 *)

\* C5: a signal received in Streaming, or in Backoff after a stream read
\* error, ends the loop through the handler of line 436: the shutdown is
\* logged, monitor_containers returns and no subscription is opened.
\* Fails in Backoff: the handler of line 439 is outside the try block.
C5_SignalHandledInBothStates ==
    (/\ signalled
     /\ sigAt.pc \notin {"load_config", "init_docker"}
     /\ caught \in {"none", "EventStreamError"}) =>
        /\ pc = "returned"
        /\ shutdownLogged
        /\ subs = sigAt.subs

-----------------------------------------------------------------------------
(* C6 *)

\* C6: a destroy event is dropped without send_slack_message being called
\* if and only if its exit code is "0" and it carries a group label.
\* Fails: exit code "0" without group labels is never sent either.
C6_SuppressedIffCleanGroup ==
    (seq >= 1 /\ event.Action = "destroy") =>
        ((sendResult = "none") <=> (GetExitCode(event) = "0" /\ HasGroupLabel(event)))

-----------------------------------------------------------------------------
(* C7 *)

\* C7: at most one event is in flight, an event is in flight exactly while
\* the thread is in its dispatch, and every side effect recorded since the
\* last event was pulled belongs to that event: nothing of an earlier event
\* happens once a later one has been pulled.
C7_OneEventAtATime ==
    /\ inflight \in {0, 1}
    /\ (inflight = 1 <=> sendResult = "running")
    /\ (sendResult = "running" <=> Dispatching(pc))
    /\ \A i \in DOMAIN oplog : oplog[i][2] = seq

\* the second event is in its retries after the first went through all of its own
C7_Witness ==
    /\ lastError.seq = 1
    /\ seq = 2
    /\ subs = lastError.sub
    /\ pc = "retry_sleep"
    /\ max_retries >= 2

-----------------------------------------------------------------------------
(* C8 *)

\* C8: once the loop has started and no signal was received, whatever
\* inspect, log-fetch, POST and stream failures occurred, the process has
\* not exited and the Supervisor is in Streaming or Backoff.
\* Fails: with RETRY_INTERVAL < 0 a failure ends the process with status 3.
C8_NoSteadyStateFailureFatal ==
    (LoopStarted /\ ~signalled /\ caught # "AttributeError") =>
        /\ exitStatus = "running"
        /\ (Streaming \/ Backoff)

\* C8 where time.sleep accepts the interval: the statement holds
C8_NoSteadyStateFailureFatal_IntervalAccepted ==
    (retry_interval >= 0) => C8_NoSteadyStateFailureFatal

-----------------------------------------------------------------------------
(* C9 *)

\* C9: the loop is entered only with max_retries >= 1 and retry_interval >= 1,
\* so the delivery error is never raised without a POST attempt.
\* Fails: _load_configuration accepts any integer.
C9_BadConfigRejected ==
    /\ (LoopStarted => (max_retries >= 1 /\ retry_interval >= 1))
    /\ (sendResult = "SlackNotificationError" => Posts >= 1)

-----------------------------------------------------------------------------
(* C10 *)

\* C10: pulling an event with an unrecognized action changes nothing but the
\* event itself (no inspect, log fetch, POST or sleep; same subscription,
\* still Streaming), and whenever send_slack_message is called the status
\* it gets is the category the action table gives the event's action.
C10_UnrecognizedNoOp ==
    [][/\ (seq' = seq + 1 /\ event'.Action \notin RecognizedActions) =>
              /\ pc' = "stream"
              /\ oplog' = <<>>
              /\ sendResult' = "none"
              /\ <<subs, backoffs, inflight, caught, exitStatus>>' =
                     <<subs, backoffs, inflight, caught, exitStatus>>
       /\ (seq' = seq + 1 /\ event'.Action \in RecognizedActions) =>
              status' = CategoryOf(event'.Action)
       /\ (sendResult' = "running") =>
              (event'.Action \in RecognizedActions /\ status' = CategoryOf(event'.Action))
      ]_vars

\* an unrecognized event was pulled right after one whose delivery failed
C10_Witness ==
    /\ lastError.seq = 1
    /\ seq = 2
    /\ event.Action = "create"
    /\ pc = "stream"
    /\ subs = 1
    /\ oplog = <<>>

-----------------------------------------------------------------------------
(* Notions of the formatting claims *)

\* a payload has been built and is being delivered
Sending == pc \in {"post", "retry_sleep"}

\* the lines of the message text
ServiceLineOf(m) == m.text[1]
StatusLineOf(m) == m.text[2]
HasImageLine(m) == \E i \in DOMAIN m.text : m.text[i] = "*Image:* nginx:latest"
HasLogBlock(m) == \E i \in DOMAIN m.text : m.text[i] = "\n*Recent Logs:*"

\* the status text the spec gives a label and an exit code
ClaimedStatus(label, code) ==
    IF code = None
    THEN label
    ELSE IF code = "0"
         THEN label \o " (Clean exit)"
         ELSE label \o " (Error exit code: " \o code \o ")"

\* the eight categories monitor_containers can pass to the formatter
Categories == {"started", "exited", "killed", "stopped", "restarted", "paused",
               "unpaused", "removed"}

-----------------------------------------------------------------------------
(* C11 *)

\* C11: the status line of a message being delivered for an Exited or Killed
\* event reads "<LABEL> (Clean exit)" for exit code "0" and
\* "<LABEL> (Error exit code: <code>)" for any other code, "Unknown" included;
\* for an event without exit code it is the bare label.
\* Fails: the payload writes "(Exit Code: <code>)" for EXITED, "0" included,
\* and no suffix at all for KILLED.
C11_ExitCodeRendering ==
    (Sending /\ (status \in {"exited", "killed"} \/ exit_code = None)) =>
        StatusLineOf(message) = StatusLine(ClaimedStatus(StatusText(status), exit_code))

-----------------------------------------------------------------------------
(* C12 *)

\* C12: a message being delivered for one of the eight categories never has
\* the fallback rendering: its label is not the upper-cased category taken
\* for want of an entry, its icon is not the bullet and its color is not
\* "#cccccc"; and label, icon and color are functions of the category.
\* Fails: status_mapping has no entry for restarted, paused, unpaused and
\* removed, and colors has none for their labels.
C12_EveryCategoryHasEntry ==
    (Sending /\ status \in Categories) =>
        /\ message.color # "#cccccc"
        /\ message.title # Title(Get(details, "compose", FALSE), "bullet")
        /\ message.color = Color(StatusText(status))
        /\ message.title = Title(Get(details, "compose", FALSE), Icon(status))

-----------------------------------------------------------------------------
(* C13 *)

\* the fenced block that closes the message text
LastLine(m) == m.text[Len(m.text)]
Fenced(l) == "'''" \o l \o "'''"

\* C13: a message being delivered has a log block only if the category is
\* exited or killed and the fetched log text is non-empty and is not
\* "No logs available" (the block then holds that text); a log fetch is made
\* for those two categories only.
C13_LogBlockOnlyOnTermination ==
    /\ (Sending /\ HasLogBlock(message)) =>
           /\ status \in {"exited", "killed"}
           /\ logs \notin {None, "", "No logs available"}
           /\ LastLine(message) = Fenced(logs)
    /\ (pc = "logs" \/ Count("logs") >= 1) => status \in {"exited", "killed"}
    /\ (Sending /\ status \notin {"exited", "killed"}) =>
           (logFetch = "none" /\ ~HasLogBlock(message))

\* a kill event is being delivered with the log lines that were fetched
C13_Witness ==
    /\ Sending
    /\ status = "killed"
    /\ logFetch = "lines"
    /\ Count("logs") = 1
    /\ HasLogBlock(message)

-----------------------------------------------------------------------------
(* C14 *)

\* the log fetch failed: the container was not found, or another error
LogFetchFailed(f) == f \in {"NotFound", "error"}

\* C14 as claimed: after a failed log fetch the log text is the placeholder
\* "No logs available" and the message being delivered has no log block.
C14_FailedFetchGivesPlaceholder ==
    (Sending /\ LogFetchFailed(logFetch)) =>
        /\ logs = "No logs available"
        /\ ~HasLogBlock(message)

\* C14 amended: the log fetch step raises nothing (no handler is entered,
\* the process goes on) and, whatever its outcome, the delivery loop begins
\* right after it; after a failed fetch the log text is an error text
\* other than the placeholder, and the message being delivered carries it
\* in its log block.
C14_FailedFetchGivesErrorText ==
    [][/\ (pc = "logs" /\ ~signalled') =>
              /\ caught' = caught
              /\ exitStatus' = exitStatus
              /\ (max_retries > 0 => pc' = "post")
       /\ (Sending' /\ LogFetchFailed(logFetch')) =>
              /\ logs' \in {"Container not found - may have been removed",
                            "Error retrieving logs"}
              /\ HasLogBlock(message')
              /\ LastLine(message') = Fenced(logs')
      ]_vars

\* a die event whose container was gone at the log fetch is being delivered
C14_Witness ==
    /\ Sending
    /\ status = "exited"
    /\ logFetch = "NotFound"
    /\ HasLogBlock(message)
    /\ Posts >= 1

-----------------------------------------------------------------------------
(* C15 *)

\* the service line that names the container as the event did
EventServiceLine == "*Service:* '" \o container_name \o "'"

\* one step of the program, as C15 wants it: when the inspect has failed
\* (details is {}), the step after the inspect, and after the log fetch that
\* follows it for exited and killed, goes on towards a POST attempt; and a
\* message delivered with such details has the event's container name as
\* its service line, the container title and no image line
C15_Step ==
    /\ (pc = "inspect" /\ ~details'.ok /\ ~signalled') => pc' \in {"logs", "post"}
    /\ (pc = "logs" /\ ~details.ok /\ ~signalled') => pc' = "post"
    /\ (Sending' /\ ~details'.ok) =>
           /\ ServiceLineOf(message') = "*Service:* '" \o container_name' \o "'"
           /\ message'.title = Title(FALSE, Icon(status'))
           /\ ~HasImageLine(message')

\* C15: a failed inspect does not abort the dispatch: the notification is
\* built from the event attributes alone and a POST attempt follows.
\* Fails: with MAX_RETRIES <= 0 no POST attempt is made at all.
C15_InspectFailureNotFatal == [][C15_Step]_vars

\* C15 where at least one attempt is configured: the statement holds
C15_InspectFailureNotFatal_AttemptsConfigured ==
    [][max_retries >= 1 => C15_Step]_vars

-----------------------------------------------------------------------------
(* C16 *)

-----------------------------------------------------------------------------
(* C17 *)

\* the input lines that are retained: the last log_lines lines of the text
Retained ==
    IF Len(rawLogs) <= log_lines
    THEN rawLogs
    ELSE [i \in 1..log_lines |-> rawLogs[Len(rawLogs) - log_lines + i]]

\* a line as the runtime wrote it, and its message
LineText(ws) == JoinWith(ws, " ")
MessageOf(ws) == JoinWith(Tail(ws), " ")

\* the three kinds of line of the claim
WellFormed(ws) == Len(ws) >= 2 /\ ws[1] = DockerStamp /\ MessageOf(ws) # ""
MalformedStamp(ws) == Len(ws) >= 2 /\ ws[1] # DockerStamp
NoWhitespace(ws) == Len(ws) = 1

\* output line out is what the claim says for input line ws
AsClaimed(ws, out) ==
    /\ WellFormed(ws) => out = "2024-05-01 12:00:00 | " \o MessageOf(ws)
    /\ (MalformedStamp(ws) \/ NoWhitespace(ws)) => out = LineText(ws)

\* C17: a get_container_logs call raises nothing; while its loop runs, the
\* lines done and the lines to do are the retained input lines; when it has
\* returned for a non-empty text, there is one output line for each retained
\* input line, in order (the reformatted line for a well-formed one, the
\* line itself for one with a malformed timestamp or without white space),
\* at most log_lines of them, and the result is these lines joined.
C17_LogFormattingTotal ==
    /\ exitStatus = "running"
    /\ caught = "none"
    /\ pc \in {"logs_fetch", "logs_format", "logs_done"}
    /\ pc = "logs_format" => Len(formatted_logs) + Len(pending) = Len(Retained)
    /\ (pc = "logs_done" /\ logFetch = "lines") =>
           /\ Len(formatted_logs) = Len(Retained)
           /\ Len(formatted_logs) <= log_lines
           /\ logs = JoinWith(formatted_logs, "\n")
    /\ logFetch \in {"none", "lines"} =>
           \A i \in DOMAIN formatted_logs : AsClaimed(Retained[i], formatted_logs[i])

\* a text of three lines was cut to the last two, one without white space
\* and one well-formed, and the call has returned
C17_Witness ==
    /\ pc = "logs_done"
    /\ log_lines = 2
    /\ Len(rawLogs) = 3
    /\ rawLogs[2] = <<"Traceback">>
    /\ rawLogs[3] = <<DockerStamp, "exit", "1">>
    /\ logs = "Traceback\n2024-05-01 12:00:00 | exit 1"

-----------------------------------------------------------------------------
(* C18 *)

\* the ts fields of the bodies posted for the current event
PostedStamps == {oplog[i][3] : i \in {j \in DOMAIN oplog : oplog[j][1] = "post"}}

\* send_slack_message has just returned or raised, no signal having cut it
SendEnded == sendResult = "running" /\ sendResult' \notin {"running", "KeyboardInterrupt"}

-----------------------------------------------------------------------------
(* C19 *)

\* a destroy event with exit code "0" of a grouped container
Suppressible(e) == e.Action = "destroy" /\ GetExitCode(e) = "0" /\ HasGroupLabel(e)

\* C19: the step that pulls a suppressible event leaves the Supervisor
\* waiting for the next event of the same subscription: nothing is sent, no
\* handler is entered, no backoff sleep and no resubscription follow.
\* Fails: the suppression check raises AttributeError (see C6) and the
\* Supervisor goes to Backoff.
C19_SuppressedEventKeepsStream ==
    [][(seq' = seq + 1 /\ Suppressible(event')) =>
          /\ pc' = "stream"
          /\ sendResult' = "none"
          /\ oplog' = <<>>
          /\ <<subs, backoffs, caught, exitStatus>>' = <<subs, backoffs, caught, exitStatus>>
      ]_vars

-----------------------------------------------------------------------------
(* C20 *)

\* one step, as C20 wants it: Streaming is left only by a shutdown signal or
\* by an error of the subscription read, and a dispatch that no signal cuts
\* stays in Streaming
C20_Step ==
    /\ (Streaming /\ ~Streaming') => (signalled' \/ (pc = "stream" /\ caught' = "EventStreamError"))
    /\ (Dispatching(pc) /\ ~signalled') => (Streaming' /\ subs' = subs /\ backoffs' = backoffs)

\* C20: no error raised while one event is dispatched takes the Supervisor
\* out of Streaming.
\* Fails: the AttributeError of the suppression check (see C6) and the
\* ValueError of a retry sleep with RETRY_INTERVAL < 0 (see C9) both reach
\* the handler of line 439.
C20_DispatchErrorsContained == [][C20_Step]_vars

\* C20 for a sleep interval time.sleep accepts and steps in which the
\* suppression check is not reached: the statement holds
C20_DispatchErrorsContained_CheckNotReached ==
    [][(retry_interval >= 0 /\ caught' # "AttributeError") => C20_Step]_vars

-----------------------------------------------------------------------------
(* C21 *)

\* C21: whenever a subscription is opened, as many backoff sleeps have been
\* begun as subscriptions were opened before it: none before the first, and
\* exactly one between each opening and the next, however the earlier
\* subscription ended.
\* Fails: when the event generator ends without raising, the for loop is
\* over and while True opens the next subscription at once, with no sleep.
C21_OneBackoffBetweenOpenings ==
    [][(subs' = subs + 1) => backoffs = subs]_vars

\* C21 for the handler of line 439 alone: once it is entered, exactly one
\* sleep is begun before control is back at while True (or the process ends
\* there, by a signal or by the ValueError of a negative interval), no
\* backoff sleep is begun anywhere else, and never more than one lies
\* between two openings: the statement holds
C21_OneBackoffAfterError ==
    [][/\ (pc = "backoff" /\ ~signalled') =>
              \/ pc' = "backoff_sleep" /\ backoffs' = backoffs + 1 /\ subs' = subs
              \/ retry_interval < 0 /\ pc' = "exited" /\ backoffs' = backoffs
       /\ (pc = "backoff_sleep" /\ ~signalled') =>
              (pc' = "subscribe" /\ backoffs' = backoffs /\ subs' = subs)
       /\ (pc # "backoff") => backoffs' = backoffs
       /\ (subs' = subs + 1) => (pc = "subscribe" /\ backoffs <= subs)
      ]_vars

=============================================================================
